---------------------------- MODULE Spec2Model ----------------------------
(***************************************************************************)
(* Model of the two scripts of the repository:                             *)
(*   src/scripts/openai_example.py            (tool-calling conversation)  *)
(*   src/examples/workflows/context_example/generate_content.py            *)
(*                                            (external content program)   *)
(*                                                                         *)
(* Python strings whose characters matter are sequences of one-character   *)
(* strings, so that parsing, serialising and substring tests are computed. *)
(***************************************************************************)
EXTENDS Integers, Sequences, FiniteSets, TLC

\* ------------------------------------------------------------------------
\* Bounds of the model
\* ------------------------------------------------------------------------

\* Largest number of tool calls the model API returns in one response.
MaxCalls == 2

\* Longest arbitrary character string tried as the DIVE_GLOBALS value.
MaxEnvLen == 4

\* ------------------------------------------------------------------------
\* JSON values, as Python's json module builds them
\* ------------------------------------------------------------------------

\* str
JStr(cs) == [t |-> "str", v |-> cs]
\* int
JNum(n) == [t |-> "num", v |-> n]
\* True, False, None ("true", "false", "null")
JLit(name) == [t |-> "lit", v |-> name]
\* list
JArr(elems) == [t |-> "arr", v |-> elems]
\* dict: members in insertion order, each [k |-> key characters, val |-> value]
JObj(members) == [t |-> "obj", v |-> members]

\* Mutant of Truthy: `if globals_data is not None:` -- only None and False
\* are false, an empty dict or list is true.
TruthyNotNone(x) == IF x.t = "lit" THEN x.v = "true" ELSE TRUE

\* Mutant of Truthy: `if isinstance(globals_data, dict) and globals_data:` --
\* only a non-empty dict is true.
TruthyDictOnly(x) == IF x.t = "obj" THEN x.v # <<>> ELSE FALSE

\* Python truth value of a decoded JSON value (`if globals_data:`).
Truthy(x) ==
    CASE x.t = "str" -> x.v # <<>>
      [] x.t = "num" -> x.v # 0
      [] x.t = "lit" -> x.v = "true"
      [] x.t = "arr" -> x.v # <<>>
      [] x.t = "obj" -> x.v # <<>>

\* dict[key] = val: a new key is appended, an existing key keeps its place.
DictSet(members, key, val) ==
    IF \E n \in 1..Len(members) : members[n].k = key
    THEN [n \in 1..Len(members) |->
            IF members[n].k = key THEN [k |-> key, val |-> val] ELSE members[n]]
    ELSE Append(members, [k |-> key, val |-> val])

\* key in dict
DictHas(members, key) == \E n \in 1..Len(members) : members[n].k = key

\* dict[key]
DictGet(members, key) ==
    members[CHOOSE n \in 1..Len(members) : members[n].k = key].val

\* ------------------------------------------------------------------------
\* json.loads
\* ------------------------------------------------------------------------

Whitespace == {" ", "\n", "\t", "\r"}
Digits == <<"0", "1", "2", "3", "4", "5", "6", "7", "8", "9">>
DigitSet == {Digits[n] : n \in 1..10}
DigitValue(c) == (CHOOSE n \in 1..10 : Digits[n] = c) - 1

\* A failed decode (json.JSONDecodeError).
ParseFail == [ok |-> FALSE, v |-> JLit("null"), i |-> 0]
ParseOk(val, next) == [ok |-> TRUE, v |-> val, i |-> next]

RECURSIVE SkipWs(_, _)
\* The first position at or after i that holds no JSON whitespace.
SkipWs(s, i) ==
    IF i <= Len(s) /\ s[i] \in Whitespace THEN SkipWs(s, i + 1) ELSE i

\* The characters that end a run of plain characters inside a string literal:
\* the closing quote, the backslash and the control characters.
StringSpecial == {"\"", "\\", "\n", "\t", "\r"}

\* The first position at or after i holding such a character, else Len(s) + 1.
NextSpecial(s, i) ==
    LET at == {j \in i..Len(s) : s[j] \in StringSpecial}
    IN  IF at = {} THEN Len(s) + 1 ELSE CHOOSE j \in at : \A k \in at : j <= k

RECURSIVE ScanString(_, _, _)
\* The body of a string literal from position i (after the opening quote):
\* a run of plain characters, then the closing quote or an escape.
ScanString(s, i, acc) ==
    LET j == NextSpecial(s, i)
        run == acc \o SubSeq(s, i, j - 1)
    IN  IF j > Len(s) THEN ParseFail
        ELSE IF s[j] = "\"" THEN ParseOk(JStr(run), j + 1)
        ELSE IF s[j] # "\\" THEN ParseFail
        ELSE IF j + 1 > Len(s) THEN ParseFail
        ELSE CASE s[j + 1] = "\"" -> ScanString(s, j + 2, Append(run, "\""))
               [] s[j + 1] = "\\" -> ScanString(s, j + 2, Append(run, "\\"))
               [] s[j + 1] = "/"  -> ScanString(s, j + 2, Append(run, "/"))
               [] s[j + 1] = "n"  -> ScanString(s, j + 2, Append(run, "\n"))
               [] s[j + 1] = "t"  -> ScanString(s, j + 2, Append(run, "\t"))
               [] s[j + 1] = "r"  -> ScanString(s, j + 2, Append(run, "\r"))
               [] OTHER -> ParseFail

RECURSIVE ScanDigits(_, _, _)
\* The digits of an integer from position i, acc being the value so far.
ScanDigits(s, i, acc) ==
    IF i <= Len(s) /\ s[i] \in DigitSet
    THEN ScanDigits(s, i + 1, 10 * acc + DigitValue(s[i]))
    ELSE ParseOk(JNum(acc), i)

\* An integer literal at position i: -?(0|[1-9][0-9]*)
ParseNumber(s, i) ==
    LET neg == s[i] = "-"
        j == IF neg THEN i + 1 ELSE i
    IN  IF j > Len(s) \/ s[j] \notin DigitSet THEN ParseFail
        ELSE LET r == IF s[j] = "0" THEN ParseOk(JNum(0), j + 1)
                      ELSE ScanDigits(s, j, 0)
             IN  IF neg THEN ParseOk(JNum(0 - r.v.v), r.i) ELSE r

\* Whether the characters of word stand at position i.
StartsAt(s, i, word) ==
    /\ i + Len(word) - 1 <= Len(s)
    /\ SubSeq(s, i, i + Len(word) - 1) = word

RECURSIVE ParseValue(_, _)
RECURSIVE ParseMembers(_, _, _)
RECURSIVE ParseElements(_, _, _)

\* A JSON value starting at position i (no leading whitespace).
ParseValue(s, i) ==
    IF i > Len(s) THEN ParseFail
    ELSE CASE s[i] = "\"" -> ScanString(s, i + 1, <<>>)
           [] s[i] = "{" ->
                LET j == SkipWs(s, i + 1)
                IN  IF j <= Len(s) /\ s[j] = "}" THEN ParseOk(JObj(<<>>), j + 1)
                    ELSE ParseMembers(s, j, <<>>)
           [] s[i] = "[" ->
                LET j == SkipWs(s, i + 1)
                IN  IF j <= Len(s) /\ s[j] = "]" THEN ParseOk(JArr(<<>>), j + 1)
                    ELSE ParseElements(s, j, <<>>)
           [] s[i] = "-" \/ s[i] \in DigitSet -> ParseNumber(s, i)
           [] StartsAt(s, i, <<"t", "r", "u", "e">>) -> ParseOk(JLit("true"), i + 4)
           [] StartsAt(s, i, <<"f", "a", "l", "s", "e">>) -> ParseOk(JLit("false"), i + 5)
           [] StartsAt(s, i, <<"n", "u", "l", "l">>) -> ParseOk(JLit("null"), i + 4)
           [] OTHER -> ParseFail

\* The members of an object from position i (at a key), acc those read so far.
ParseMembers(s, i, acc) ==
    IF i > Len(s) \/ s[i] # "\"" THEN ParseFail
    ELSE LET key == ScanString(s, i + 1, <<>>)
         IN  IF ~key.ok THEN ParseFail
             ELSE LET c == SkipWs(s, key.i)
                  IN  IF c > Len(s) \/ s[c] # ":" THEN ParseFail
                      ELSE LET val == ParseValue(s, SkipWs(s, c + 1))
                           IN  IF ~val.ok THEN ParseFail
                               ELSE LET e == SkipWs(s, val.i)
                                        now == DictSet(acc, key.v.v, val.v)
                                    IN  IF e > Len(s) THEN ParseFail
                                        ELSE IF s[e] = "}" THEN ParseOk(JObj(now), e + 1)
                                        ELSE IF s[e] = ","
                                             THEN ParseMembers(s, SkipWs(s, e + 1), now)
                                        ELSE ParseFail

\* The elements of an array from position i (at a value), acc those read so far.
ParseElements(s, i, acc) ==
    LET val == ParseValue(s, i)
    IN  IF ~val.ok THEN ParseFail
        ELSE LET e == SkipWs(s, val.i)
                 now == Append(acc, val.v)
             IN  IF e > Len(s) THEN ParseFail
                 ELSE IF s[e] = "]" THEN ParseOk(JArr(now), e + 1)
                 ELSE IF s[e] = "," THEN ParseElements(s, SkipWs(s, e + 1), now)
                 ELSE ParseFail

\* json.loads(s): ok is FALSE where Python raises json.JSONDecodeError.
Loads(s) ==
    LET r == ParseValue(s, SkipWs(s, 1))
    IN  IF r.ok /\ SkipWs(s, r.i) = Len(s) + 1 THEN r ELSE ParseFail

\* ------------------------------------------------------------------------
\* json.dumps(..., indent=2)
\* ------------------------------------------------------------------------

RECURSIVE Spaces(_)
Spaces(n) == IF n = 0 THEN <<>> ELSE <<" ">> \o Spaces(n - 1)

\* The indent argument of both json.dumps calls.
Indent == 2

\* newline_indent of the encoder at a nesting level
NewlineIndent(level) == <<"\n">> \o Spaces(Indent * level)

RECURSIVE NatToChars(_)
NatToChars(n) ==
    IF n < 10 THEN <<Digits[n + 1]>>
    ELSE NatToChars(n \div 10) \o <<Digits[(n % 10) + 1]>>

IntToChars(n) == IF n < 0 THEN <<"-">> \o NatToChars(0 - n) ELSE NatToChars(n)

\* One character inside a string literal (ensure_ascii escaping).
EncodeChar(c) ==
    CASE c = "\"" -> <<"\\", "\"">>
      [] c = "\\" -> <<"\\", "\\">>
      [] c = "\n" -> <<"\\", "n">>
      [] c = "\t" -> <<"\\", "t">>
      [] c = "\r" -> <<"\\", "r">>
      [] OTHER -> <<c>>

RECURSIVE Flatten(_)
\* The concatenation of a sequence of sequences.
Flatten(ss) ==
    IF Len(ss) = 0 THEN <<>>
    ELSE IF Len(ss) = 1 THEN ss[1]
    ELSE LET h == Len(ss) \div 2
         IN  Flatten(SubSeq(ss, 1, h)) \o Flatten(SubSeq(ss, h + 1, Len(ss)))

EncodeChars(cs) == Flatten([n \in 1..Len(cs) |-> EncodeChar(cs[n])])

\* A string literal.
EncodeString(cs) == <<"\"">> \o EncodeChars(cs) \o <<"\"">>

LitChars(name) ==
    CASE name = "true" -> <<"t", "r", "u", "e">>
      [] name = "false" -> <<"f", "a", "l", "s", "e">>
      [] name = "null" -> <<"n", "u", "l", "l">>

RECURSIVE DumpsAt(_, _)
RECURSIVE DumpItems(_, _, _, _)

\* The items of a list (isObj FALSE) or dict (isObj TRUE) from the n-th on,
\* separated by "," and newline_indent; the key separator is ": ".
DumpItems(items, n, level, isObj) ==
    LET one == IF isObj
               THEN EncodeString(items[n].k) \o <<":", " ">> \o DumpsAt(items[n].val, level)
               ELSE DumpsAt(items[n], level)
    IN  IF n = Len(items) THEN one
        ELSE one \o <<",">> \o NewlineIndent(level) \o DumpItems(items, n + 1, level, isObj)

\* The encoding of a value nested at a level.
DumpsAt(x, level) ==
    CASE x.t = "str" -> EncodeString(x.v)
      [] x.t = "num" -> IntToChars(x.v)
      [] x.t = "lit" -> LitChars(x.v)
      [] x.t = "arr" ->
            IF x.v = <<>> THEN <<"[", "]">>
            ELSE <<"[">> \o NewlineIndent(level + 1) \o DumpItems(x.v, 1, level + 1, FALSE)
                 \o NewlineIndent(level) \o <<"]">>
      [] x.t = "obj" ->
            IF x.v = <<>> THEN <<"{", "}">>
            ELSE <<"{">> \o NewlineIndent(level + 1) \o DumpItems(x.v, 1, level + 1, TRUE)
                 \o NewlineIndent(level) \o <<"}">>

\* json.dumps(x, indent=2)
Dumps(x) == DumpsAt(x, 0)

\* ------------------------------------------------------------------------
\* State
\* ------------------------------------------------------------------------

VARIABLES
    \* src/scripts/openai_example.py
    pc,            \* the statement the conversation script is at
    messages,      \* the message log (line 25)
    completion,    \* choices[0].message of the last completion received
    choice,        \* choices[0].message of the first completion (line 34)
    tool_call,     \* choice.message.tool_calls[0] (line 36)
    api_calls,     \* every chat.completions.create call, as the API saw it
    printed,       \* what the script printed (lines 38, 40, 56)
    exc,           \* the exception that ended the script, "" if none
    \* src/examples/workflows/context_example/generate_content.py
    gpc,           \* the statement the content program is at
    environ,       \* the DIVE_GLOBALS entry of the process environment
    globals_env,   \* os.getenv("DIVE_GLOBALS") (line 7)
    globals_data,  \* the decoded globals (lines 8-10)
    content,       \* the content dict (lines 13-20)
    stdout,        \* what the program wrote to standard output
    exit_code      \* its exit status, -1 while it runs

convVars == <<pc, messages, completion, choice, tool_call, api_calls, printed, exc>>
genVars == <<gpc, environ, globals_env, globals_data, content, stdout, exit_code>>
vars == <<pc, messages, completion, choice, tool_call, api_calls, printed, exc,
          gpc, environ, globals_env, globals_data, content, stdout, exit_code>>

\* ------------------------------------------------------------------------
\* src/scripts/openai_example.py
\* ------------------------------------------------------------------------

\* Python None in a string-valued field.
None == "None"

QueryKey == <<"q", "u", "e", "r", "y">>

\* tools (lines 6-23): one strict function tool.
tools ==
    <<[name |-> "GoogleSearch",
       properties |-> {QueryKey},
       required |-> {QueryKey},
       additionalProperties |-> FALSE,
       strict |-> TRUE]>>

\* Function names the model may put in a tool call.
FunctionNames == {"GoogleSearch", "Calculator"}

\* {"query":"x"}
ArgsQuery ==
    <<"{", "\"", "q", "u", "e", "r", "y", "\"", ":", "\"", "x", "\"", "}">>
\* {}
ArgsEmpty == <<"{", "}">>

\* Raw argument strings the model may put in a tool call.
ArgumentStrings == {ArgsQuery, ArgsEmpty}

\* Tool call ids the model may use.
CallIds == {"call_" \o ToString(n) : n \in 1..MaxCalls}

ToolCalls == [id : CallIds, name : FunctionNames, arguments : ArgumentStrings]

\* tool_calls of a response: ids unique within the message; <<>> is None.
ToolCallSeqs ==
    UNION {{s \in [1..n -> ToolCalls] :
                \A a, b \in 1..n : a # b => s[a].id # s[b].id} : n \in 0..MaxCalls}

\* choices[0].message of a completion
AssistantMessage(calls) ==
    [role |-> "assistant",
     content |-> IF calls = <<>> THEN "Mt. St. Helens is 8,363 feet tall." ELSE None,
     tool_calls |-> calls,
     tool_call_id |-> None]

\* The messages the model API may answer with.
Responses == {AssistantMessage(calls) : calls \in ToolCallSeqs}

\* No message (a variable not assigned yet).
NoMessage == [role |-> None, content |-> None, tool_calls |-> <<>>, tool_call_id |-> None]
NoToolCall == [id |-> None, name |-> None, arguments |-> <<>>]

\* messages (line 25)
InitialMessages ==
    <<[role |-> "user", content |-> "How tall is Mt. St. Helens?",
       tool_calls |-> <<>>, tool_call_id |-> None]>>

\* The tool result message (lines 44-48).
ToolMessage(call) ==
    [role |-> "tool", content |-> "9,033 feet", tool_calls |-> <<>>,
     tool_call_id |-> call.id]

\* The request of the first create call (lines 27-32).
FirstRequest == [messages |-> messages, tools |-> tools, tool_choice |-> "required"]

\* Mutant of SecondRequest: the second call is sent the initial messages only
\* (a copy of the log taken before the appends of lines 42-49).
SecondRequestStaleLog ==
    [messages |-> SubSeq(messages, 1, 1), tools |-> <<>>, tool_choice |-> None]

\* The request of the second create call (lines 51-54): no tools, no tool_choice.
SecondRequest == [messages |-> messages, tools |-> <<>>, tool_choice |-> None]

ConvInit ==
    /\ pc = "create1"
    /\ messages = InitialMessages
    /\ completion = NoMessage
    /\ choice = NoMessage
    /\ tool_call = NoToolCall
    /\ api_calls = <<>>
    /\ printed = <<>>
    /\ exc = ""

\* Lines 27-32: the first completion arrives.
Create1Ok(resp) ==
    /\ pc = "create1"
    /\ api_calls' = Append(api_calls, [request |-> FirstRequest, ok |-> TRUE, message |-> resp])
    /\ completion' = resp
    /\ pc' = "first_call"
    /\ UNCHANGED <<messages, choice, tool_call, printed, exc>>
    /\ UNCHANGED genVars

\* Lines 27-32: the first create call raises (network, auth, rate limit).
Create1Raise ==
    /\ pc = "create1"
    /\ api_calls' = Append(api_calls, [request |-> FirstRequest, ok |-> FALSE, message |-> NoMessage])
    /\ exc' = "APIError"
    /\ pc' = "raised"
    /\ UNCHANGED <<messages, completion, choice, tool_call, printed>>
    /\ UNCHANGED genVars

\* Mutant of TakeFirstCall: tool_calls[-1] instead of tool_calls[0].
TakeLastCall ==
    /\ pc = "first_call"
    /\ completion.tool_calls # <<>>
    /\ choice' = completion
    /\ tool_call' = completion.tool_calls[Len(completion.tool_calls)]
    /\ printed' = printed \o <<[label |-> "message:", value |-> completion],
                              [label |-> "tool_calls:", value |-> completion]>>
    /\ pc' = "append_message"
    /\ UNCHANGED <<messages, completion, api_calls, exc>>
    /\ UNCHANGED <<gpc, environ, globals_env, globals_data, content, stdout, exit_code>>

\* Lines 34-40: choice, tool_calls[0] and the two prints.
TakeFirstCall ==
    /\ pc = "first_call"
    /\ completion.tool_calls # <<>>
    /\ choice' = completion
    /\ tool_call' = completion.tool_calls[1]
    /\ printed' = printed \o <<[label |-> "message:", value |-> completion],
                              [label |-> "tool_calls:", value |-> completion]>>
    /\ pc' = "append_message"
    /\ UNCHANGED <<messages, completion, api_calls, exc>>
    /\ UNCHANGED genVars

\* Line 36 when tool_calls is None: subscripting None raises TypeError.
TakeFirstCallRaise ==
    /\ pc = "first_call"
    /\ completion.tool_calls = <<>>
    /\ choice' = completion
    /\ exc' = "TypeError"
    /\ pc' = "raised"
    /\ UNCHANGED <<messages, completion, tool_call, api_calls, printed>>
    /\ UNCHANGED genVars

\* Mutant of AppendMessage: line 42 left out, the assistant message never
\* reaches the log.
AppendMessageSkipped ==
    /\ pc = "append_message"
    /\ pc' = "append_tool"
    /\ UNCHANGED <<messages, completion, choice, tool_call, api_calls, printed, exc>>
    /\ UNCHANGED <<gpc, environ, globals_env, globals_data, content, stdout, exit_code>>

\* Line 42: messages.append(choice.message)
AppendMessage ==
    /\ pc = "append_message"
    /\ messages' = Append(messages, choice)
    /\ pc' = "append_tool"
    /\ UNCHANGED <<completion, choice, tool_call, api_calls, printed, exc>>
    /\ UNCHANGED genVars

\* Mutant of AppendToolResult: messages[-1] = {...} instead of append.
AppendToolResultOverwrite ==
    /\ pc = "append_tool"
    /\ messages' = [messages EXCEPT ![Len(messages)] =
                        [role |-> "tool", content |-> "9,033 feet", tool_calls |-> <<>>,
                         tool_call_id |-> tool_call.id]]
    /\ pc' = "create2"
    /\ UNCHANGED <<completion, choice, tool_call, api_calls, printed, exc>>
    /\ UNCHANGED <<gpc, environ, globals_env, globals_data, content, stdout, exit_code>>

\* Lines 43-49: messages.append({"role": "tool", ...})
AppendToolResult ==
    /\ pc = "append_tool"
    /\ messages' = Append(messages, ToolMessage(tool_call))
    /\ pc' = "create2"
    /\ UNCHANGED <<completion, choice, tool_call, api_calls, printed, exc>>
    /\ UNCHANGED genVars

\* Mutant of Create2Ok: the script loops back to line 34 on the new completion
\* instead of going on to print it.
Create2OkLoop(resp) ==
    /\ pc = "create2"
    /\ api_calls' = Append(api_calls, [request |-> [messages |-> messages, tools |-> <<>>, tool_choice |-> "None"],
                                       ok |-> TRUE, message |-> resp])
    /\ completion' = resp
    /\ pc' = "first_call"
    /\ UNCHANGED <<messages, choice, tool_call, printed, exc>>
    /\ UNCHANGED <<gpc, environ, globals_env, globals_data, content, stdout, exit_code>>

\* Lines 51-54: the second completion arrives.
Create2Ok(resp) ==
    /\ pc = "create2"
    /\ api_calls' = Append(api_calls, [request |-> SecondRequest, ok |-> TRUE, message |-> resp])
    /\ completion' = resp
    /\ pc' = "print"
    /\ UNCHANGED <<messages, choice, tool_call, printed, exc>>
    /\ UNCHANGED genVars

\* Mutant of Create2Raise: the exception is caught and its text appended to
\* the log as an assistant message, the script going on to line 56.
Create2RaiseSwallowed ==
    /\ pc = "create2"
    /\ api_calls' = Append(api_calls, [request |-> [messages |-> messages, tools |-> <<>>, tool_choice |-> "None"],
                                       ok |-> FALSE,
                                       message |-> [role |-> "None", content |-> "None",
                                                    tool_calls |-> <<>>, tool_call_id |-> "None"]])
    /\ messages' = Append(messages, [role |-> "assistant", content |-> "APIError",
                                     tool_calls |-> <<>>, tool_call_id |-> "None"])
    /\ pc' = "print"
    /\ UNCHANGED <<completion, choice, tool_call, printed, exc>>
    /\ UNCHANGED <<gpc, environ, globals_env, globals_data, content, stdout, exit_code>>

\* Lines 51-54: the second create call raises.
Create2Raise ==
    /\ pc = "create2"
    /\ api_calls' = Append(api_calls, [request |-> SecondRequest, ok |-> FALSE, message |-> NoMessage])
    /\ exc' = "APIError"
    /\ pc' = "raised"
    /\ UNCHANGED <<messages, completion, choice, tool_call, printed>>
    /\ UNCHANGED genVars

\* Line 56: print("completion:", completion.choices[0]); the script ends.
PrintCompletion ==
    /\ pc = "print"
    /\ printed' = Append(printed, [label |-> "completion:", value |-> completion])
    /\ pc' = "done"
    /\ UNCHANGED <<messages, completion, choice, tool_call, api_calls, exc>>
    /\ UNCHANGED genVars

ConvNext ==
    \/ \E resp \in Responses : Create1Ok(resp)
    \/ Create1Raise
    \/ TakeFirstCall
    \/ TakeFirstCallRaise
    \/ AppendMessage
    \/ AppendToolResult
    \/ \E resp \in Responses : Create2Ok(resp)
    \/ Create2Raise
    \/ PrintCompletion

\* ------------------------------------------------------------------------
\* src/examples/workflows/context_example/generate_content.py
\* ------------------------------------------------------------------------

\* An environment entry: unset (os.getenv gives None) or set to a string.
Unset == [set |-> FALSE, val |-> <<>>]
SetTo(cs) == [set |-> TRUE, val |-> cs]

\* `if globals_env:` -- None and "" are false.
EnvTruthy(e) == e.set /\ e.val # <<>>

\* {"user":"Alice"}
EnvAlice ==
    <<"{", "\"", "u", "s", "e", "r", "\"", ":", "\"", "A", "l", "i", "c", "e", "\"", "}">>
\* The same object as json.dumps(indent=2) writes it.
EnvAlicePretty ==
    <<"{", "\n", " ", " ", "\"", "u", "s", "e", "r", "\"", ":", " ", "\"", "A", "l", "i", "c", "e", "\"", "\n", "}">>
\* {"a":1,"b":[true,null]}
EnvNested ==
    <<"{", "\"", "a", "\"", ":", "1", ",", "\"", "b", "\"", ":", "[", "t", "r", "u", "e", ",", "n", "u", "l", "l", "]", "}">>
\* ' {"a":{}} '
EnvEmptyInner ==
    <<" ", "{", "\"", "a", "\"", ":", "{", "}", "}", " ">>
\* ["x"]
EnvArray ==
    <<"[", "\"", "x", "\"", "]">>
\* "hi"
EnvString ==
    <<"\"", "h", "i", "\"">>
EnvNull ==
    <<"n", "u", "l", "l">>
EnvFalse ==
    <<"f", "a", "l", "s", "e">>
EnvTrue ==
    <<"t", "r", "u", "e">>
\* {"a":"q\"t\n"} (escapes inside a string)
EnvEscaped ==
    <<"{", "\"", "a", "\"", ":", "\"", "q", "\\", "\"", "t", "\\", "n", "\"", "}">>
\* {"user":"Alice"  (malformed: no closing brace)
EnvTruncated ==
    <<"{", "\"", "u", "s", "e", "r", "\"", ":", "\"", "A", "l", "i", "c", "e", "\"">>
\* {"a":1,"a":2}
EnvDuplicate ==
    <<"{", "\"", "a", "\"", ":", "1", ",", "\"", "a", "\"", ":", "2", "}">>
\* {"a":1}x  (malformed: extra data)
EnvTrailing ==
    <<"{", "\"", "a", "\"", ":", "1", "}", "x">>

EnvExamples ==
    {EnvAlice, EnvAlicePretty, EnvNested, EnvEmptyInner, EnvArray, EnvString,
     EnvNull, EnvFalse, EnvTrue, EnvEscaped, EnvTruncated, EnvDuplicate, EnvTrailing}

\* Characters of the arbitrary short channel strings.
EnvAlphabet == {"{", "}", "[", "]", "\"", "a", "0", "1", "-", " ", ":", ","}

ShortStrings == UNION {[1..n -> EnvAlphabet] : n \in 0..MaxEnvLen}

\* The values DIVE_GLOBALS may have when the program starts.
EnvValues == {Unset} \cup {SetTo(cs) : cs \in EnvExamples \cup ShortStrings}

\* datetime.now().isoformat(): with and without microseconds.
Timestamps ==
    {<<"2", "0", "2", "6", "-", "1", "1", "-", "0", "2", "T", "1", "3", ":", "5", "2", ":", "0", "7", ".", "0", "0", "0", "1", "2", "3">>,
     <<"2", "0", "2", "6", "-", "1", "1", "-", "0", "2", "T", "1", "3", ":", "5", "2", ":", "0", "8">>}

TypeKey == <<"t", "y", "p", "e">>
TextKey == <<"t", "e", "x", "t">>

\* "Generated at "
GeneratedAt ==
    <<"G", "e", "n", "e", "r", "a", "t", "e", "d", " ", "a", "t", " ">>
\* " by external Python script"
ByScript ==
    <<" ", "b", "y", " ", "e", "x", "t", "e", "r", "n", "a", "l", " ", "P", "y", "t", "h", "o", "n", " ", "s", "c", "r", "i", "p", "t">>
\* "\nWorkflow globals: "
GlobalsHeader ==
    <<"\n", "W", "o", "r", "k", "f", "l", "o", "w", " ", "g", "l", "o", "b", "a", "l", "s", ":", " ">>

\* The content dict of lines 13-16, for a timestamp.
NewContent(stamp) ==
    JObj(<<[k |-> TypeKey, val |-> JStr(TextKey)],
           [k |-> TextKey, val |-> JStr(GeneratedAt \o stamp \o ByScript)]>>)

\* Mutant of WithGlobals: json.dumps(globals_env) -- the raw channel string is
\* dumped (as a JSON string literal) instead of the decoded globals_data.
WithGlobalsRaw(c, data) ==
    JObj(DictSet(c.v, <<"t", "e", "x", "t">>,
                 JStr(DictGet(c.v, <<"t", "e", "x", "t">>).v
                      \o <<"\n", "W", "o", "r", "k", "f", "l", "o", "w", " ", "g", "l", "o", "b", "a", "l", "s", ":", " ">>
                      \o EncodeString(globals_env.val))))

\* Line 20: content["text"] += f"\nWorkflow globals: {json.dumps(globals_data, indent=2)}"
WithGlobals(c, data) ==
    JObj(DictSet(c.v, TextKey,
                 JStr(DictGet(c.v, TextKey).v \o GlobalsHeader \o Dumps(data))))

\* print(x): the text and a newline.
PrintLine(text) == text \o <<"\n">>

GenInit ==
    /\ gpc = "getenv"
    /\ environ \in EnvValues
    /\ globals_env = Unset
    /\ globals_data = JObj(<<>>)
    /\ content = JObj(<<>>)
    /\ stdout = <<>>
    /\ exit_code = -1

\* Lines 7-8
GetEnv ==
    /\ gpc = "getenv"
    /\ globals_env' = environ
    /\ globals_data' = JObj(<<>>)
    /\ gpc' = "if_env"
    /\ UNCHANGED <<environ, content, stdout, exit_code>>
    /\ UNCHANGED convVars

\* Lines 9-10, the channel being set and not empty: json.loads succeeds.
LoadGlobals ==
    /\ gpc = "if_env"
    /\ EnvTruthy(globals_env)
    /\ Loads(globals_env.val).ok
    /\ globals_data' = Loads(globals_env.val).v
    /\ gpc' = "build"
    /\ UNCHANGED <<environ, globals_env, content, stdout, exit_code>>
    /\ UNCHANGED convVars

\* Mutant of LoadGlobalsRaise: the decode error is caught and the program
\* exits quietly with status 0.
LoadGlobalsRaiseQuiet ==
    /\ gpc = "if_env"
    /\ globals_env.set /\ globals_env.val # <<>>
    /\ ~Loads(globals_env.val).ok
    /\ gpc' = "exited"
    /\ exit_code' = 0
    /\ UNCHANGED <<environ, globals_env, globals_data, content, stdout>>
    /\ UNCHANGED <<pc, messages, completion, choice, tool_call, api_calls, printed, exc>>

\* Line 10: json.loads raises JSONDecodeError; the interpreter exits with 1.
LoadGlobalsRaise ==
    /\ gpc = "if_env"
    /\ EnvTruthy(globals_env)
    /\ ~Loads(globals_env.val).ok
    /\ gpc' = "exited"
    /\ exit_code' = 1
    /\ UNCHANGED <<environ, globals_env, globals_data, content, stdout>>
    /\ UNCHANGED convVars

\* Line 9, the channel being None or "": the body is skipped.
SkipLoad ==
    /\ gpc = "if_env"
    /\ ~EnvTruthy(globals_env)
    /\ gpc' = "build"
    /\ UNCHANGED <<environ, globals_env, globals_data, content, stdout, exit_code>>
    /\ UNCHANGED convVars

\* Lines 13-16
BuildContent(stamp) ==
    /\ gpc = "build"
    /\ content' = NewContent(stamp)
    /\ gpc' = "if_data"
    /\ UNCHANGED <<environ, globals_env, globals_data, stdout, exit_code>>
    /\ UNCHANGED convVars

\* Lines 19-20, globals_data being true.
IncludeGlobals ==
    /\ gpc = "if_data"
    /\ Truthy(globals_data)
    /\ content' = WithGlobals(content, globals_data)
    /\ gpc' = "print"
    /\ UNCHANGED <<environ, globals_env, globals_data, stdout, exit_code>>
    /\ UNCHANGED convVars

\* Line 19, globals_data being false: the body is skipped.
SkipGlobals ==
    /\ gpc = "if_data"
    /\ ~Truthy(globals_data)
    /\ gpc' = "print"
    /\ UNCHANGED <<environ, globals_env, globals_data, content, stdout, exit_code>>
    /\ UNCHANGED convVars

\* Line 23: print(json.dumps(content, indent=2)); the program exits with 0.
PrintContent ==
    /\ gpc = "print"
    /\ stdout' = stdout \o PrintLine(Dumps(content))
    /\ gpc' = "exited"
    /\ exit_code' = 0
    /\ UNCHANGED <<environ, globals_env, globals_data, content>>
    /\ UNCHANGED convVars

GenNext ==
    \/ GetEnv
    \/ LoadGlobals
    \/ LoadGlobalsRaise
    \/ SkipLoad
    \/ \E stamp \in Timestamps : BuildContent(stamp)
    \/ IncludeGlobals
    \/ SkipGlobals
    \/ PrintContent

\* ------------------------------------------------------------------------
\* Specifications
\* ------------------------------------------------------------------------

\* The conversation script; the content program is not started.
Init == ConvInit /\ GenInit /\ environ = Unset
Next == ConvNext
Spec == Init /\ [][Next]_vars

\* The conversation script as the interpreter runs it: a statement that can
\* run does run, and each create call returns or raises.
FairSpec == Spec /\ WF_vars(Next)

\* The content program, for every value of the channel; the conversation
\* script is not started.
GenSpecInit == ConvInit /\ GenInit
GenSpecNext == GenNext
GenSpec == GenSpecInit /\ [][GenSpecNext]_vars

\* ------------------------------------------------------------------------
\* Notions the properties are stated with
\* ------------------------------------------------------------------------

\* The number of model invocations the script can issue (lines 27 and 51);
\* the script has no max_turns parameter.
MaxTurns == 2

IsPrefix(a, b) == Len(a) <= Len(b) /\ SubSeq(b, 1, Len(a)) = a

\* Whether sub occurs in text as a contiguous run of characters.
Contains(text, sub) ==
    \E i \in 1..(Len(text) - Len(sub) + 1) : SubSeq(text, i, i + Len(sub) - 1) = sub

\* The positions of the tool-role messages that directly follow position p.
ResultsOf(log, p) ==
    {q \in (p + 1)..Len(log) : \A r \in (p + 1)..q : log[r].role = "tool"}

\* The positions of the tool-role messages answering call id after position p.
ResultsFor(log, p, id) == {q \in ResultsOf(log, p) : log[q].tool_call_id = id}

\* The positions of the assistant messages of a log that carry tool_calls.
Requesting(log) ==
    {p \in 1..Len(log) : log[p].role = "assistant" /\ log[p].tool_calls # <<>>}

\* The registered tool of a name, if any (tools, lines 6-23).
Registered(name) == \E n \in 1..Len(tools) : tools[n].name = name
ToolNamed(name) == tools[CHOOSE n \in 1..Len(tools) : tools[n].name = name]

\* Whether raw arguments satisfy a tool's strict schema: a JSON object with
\* every required property, no unlisted property, and string values.
SatisfiesSchema(tool, raw) ==
    LET r == Loads(raw)
    IN  /\ r.ok
        /\ r.v.t = "obj"
        /\ \A k \in tool.required : DictHas(r.v.v, k)
        /\ \A n \in 1..Len(r.v.v) :
              /\ tool.additionalProperties \/ r.v.v[n].k \in tool.properties
              /\ r.v.v[n].k \in tool.properties => r.v.v[n].val.t = "str"

\* A tool call that fails at dispatch.
DispatchFails(call) ==
    ~Registered(call.name) \/ ~SatisfiesSchema(ToolNamed(call.name), call.arguments)

\* The model invocations that returned a message without tool calls.
ToolCallFree(i) == api_calls[i].ok /\ api_calls[i].message.tool_calls = <<>>

\* The run is over, normally or by an exception.
Stopped == pc \in {"done", "raised"}

\* The final message the run reported, if it reported one (line 56).
Reported == {printed[n].value : n \in {m \in 1..Len(printed) : printed[m].label = "completion:"}}

\* Standard output of the content program, decoded.
Output == Loads(stdout)
OutputText == DictGet(Output.v.v, TextKey).v

\* Whether standard output is exactly one JSON object with a string `type`
\* field and, for type "text", a string `text` field.
IsContentBlock(out) ==
    LET r == Loads(out)
    IN  /\ r.ok
        /\ r.v.t = "obj"
        /\ DictHas(r.v.v, TypeKey)
        /\ DictGet(r.v.v, TypeKey).t = "str"
        /\ DictGet(r.v.v, TypeKey).v = TextKey =>
              DictHas(r.v.v, TextKey) /\ DictGet(r.v.v, TextKey).t = "str"

\* The channel carries a non-empty JSON object.
ChannelIsObject ==
    /\ environ.set
    /\ Loads(environ.val).ok
    /\ Loads(environ.val).v.t = "obj"
    /\ Loads(environ.val).v.v # <<>>

\* ------------------------------------------------------------------------
\* Properties
\* ------------------------------------------------------------------------

\* C1: at every model invocation after the first, every assistant message of
\* the log sent that carries tool_calls is followed by as many tool-role
\* messages as it has tool_calls, each tool_call id being answered by exactly
\* one of them.  (Violated: only tool_calls[0] is answered.)
C1_OneResultPerToolCall ==
    \A i \in 2..Len(api_calls) :
        LET log == api_calls[i].request.messages
        IN  \A p \in Requesting(log) :
                /\ Cardinality(ResultsOf(log, p)) = Len(log[p].tool_calls)
                /\ \A c \in 1..Len(log[p].tool_calls) :
                      Cardinality(ResultsFor(log, p, log[p].tool_calls[c].id)) = 1

\* C2: a response without tool calls ends the run with that message as the
\* result: no later invocation, nothing dispatched or appended, no error.
\* (Violated: line 36 raises TypeError on the first such response.)
C2_NoToolCallsTerminates ==
    \A i \in 1..Len(api_calls) :
        ToolCallFree(i) =>
            /\ Len(api_calls) = i
            /\ messages = api_calls[i].request.messages
            /\ exc = ""
            /\ pc = "done" => Reported = {api_calls[i].message}

C4_DispatchFailureDescribed ==
    pc = "create2" =>
        \A c \in 1..Len(choice.tool_calls) :
            DispatchFails(choice.tool_calls[c]) =>
                /\ Cardinality(ResultsFor(messages, 2, choice.tool_calls[c].id)) = 1
                /\ \A q \in ResultsFor(messages, 2, choice.tool_calls[c].id) :
                      messages[q].content # ToolMessage(choice.tool_calls[c]).content

\* C5: a failed model invocation is the last one, raises to the caller, leaves
\* the log as it was sent, and no final message is reported.
C5_InvocationFailureSurfaced ==
    \A i \in 1..Len(api_calls) :
        ~api_calls[i].ok =>
            /\ i = Len(api_calls)
            /\ pc = "raised"
            /\ exc = "APIError"
            /\ messages = api_calls[i].request.messages
            /\ Reported = {}

C5_Witness ==
    /\ Len(api_calls) = 2
    /\ ~api_calls[2].ok
    /\ Len(messages) = 3

\* C6: when the next invocation is due, the tool has produced its result
\* exactly once for every call of the response that names the registered tool
\* with arguments satisfying its schema.  (Violated: only tool_calls[0] is
\* served, and its arguments are never parsed.)
C6_HandlerOncePerValidCall ==
    pc = "create2" =>
        \A c \in 1..Len(choice.tool_calls) :
            ~DispatchFails(choice.tool_calls[c]) =>
                Cardinality({q \in ResultsFor(messages, 2, choice.tool_calls[c].id) :
                                messages[q].content = "9,033 feet"}) = 1

\* C7: with DIVE_GLOBALS unset, "" or "{}" the program exits 0 and writes a
\* text block without globals section, the same for the three up to the
\* timestamp.
C7_AbsentAndEmptyAlike ==
    (gpc = "exited" /\ environ \in {Unset, SetTo(<<>>), SetTo(<<"{", "}">>)}) =>
        /\ exit_code = 0
        /\ IsContentBlock(stdout)
        /\ DictGet(Output.v.v, TypeKey).v = TextKey
        /\ ~Contains(OutputText, GlobalsHeader)
        /\ \E stamp \in Timestamps :
              /\ OutputText = GeneratedAt \o stamp \o ByScript
              /\ stdout = PrintLine(Dumps(NewContent(stamp)))

C7_Witness ==
    /\ gpc = "exited"
    /\ environ = SetTo(<<"{", "}">>)
    /\ exit_code = 0
    /\ stdout # <<>>

\* C8 as stated: the channel carrying a non-empty JSON object, the text
\* contains the channel's character string.  (Violated: the text holds the
\* value as json.dumps(indent=2) writes it.)
C8_ChannelVerbatim ==
    (gpc = "exited" /\ ChannelIsObject) =>
        /\ exit_code = 0
        /\ Contains(OutputText, environ.val)

\* C8 as amended: the text ends with "\nWorkflow globals: " and a
\* serialisation of the channel's value that starts a new indented line after
\* the opening brace and decodes to the value the channel decodes to.
C8_ChannelReserialised ==
    (gpc = "exited" /\ ChannelIsObject) =>
        /\ exit_code = 0
        /\ IsContentBlock(stdout)
        /\ \E stamp \in Timestamps :
              LET head == GeneratedAt \o stamp \o ByScript \o GlobalsHeader
                  rest == SubSeq(OutputText, Len(head) + 1, Len(OutputText))
              IN  /\ IsPrefix(head, OutputText)
                  /\ IsPrefix(<<"{", "\n", " ", " ", "\"">>, rest)
                  /\ Loads(rest).ok
                  /\ Loads(rest).v = Loads(environ.val).v

C8_Witness ==
    /\ gpc = "exited"
    /\ environ = SetTo(EnvAlice)
    /\ exit_code = 0
    /\ ~Contains(OutputText, EnvAlice)

\* C9: whatever the channel holds, the program either exits 0 having written
\* exactly one JSON object with a `type` field (and a `text` field for type
\* "text"), or exits non-zero having written nothing; nothing is written
\* before it exits.
C9_OneObjectOrNothing ==
    /\ gpc # "exited" => exit_code = -1 /\ stdout = <<>>
    /\ gpc = "exited" => exit_code \in {0, 1}
    /\ (gpc = "exited" /\ exit_code = 0) => IsContentBlock(stdout)
    /\ (gpc = "exited" /\ exit_code # 0) => stdout = <<>>

C9_Witness ==
    /\ gpc = "exited"
    /\ environ = SetTo(EnvTruncated)
    /\ exit_code = 1
    /\ stdout = <<>>

\* C10: every step leaves the log as a prefix of the new log, and the log
\* grows only by the script's two append statements, one message at a time.
C10_AppendOnly ==
    [][/\ IsPrefix(messages, messages')
       /\ messages' # messages =>
             /\ pc \in {"append_message", "append_tool"}
             /\ Len(messages') = Len(messages) + 1]_vars

C10_Witness ==
    /\ Len(messages) = 3
    /\ messages[3].role = "tool"
    /\ IsPrefix(InitialMessages, messages)

\* The place of call id among the tool_calls of a message, 0 if it has none.
CallIndex(msg, id) ==
    IF \E c \in 1..Len(msg.tool_calls) : msg.tool_calls[c].id = id
    THEN CHOOSE c \in 1..Len(msg.tool_calls) : msg.tool_calls[c].id = id
    ELSE 0

\* C11: every tool-role message of the log directly follows (with only
\* tool-role messages between) an assistant message carrying tool_calls, its
\* tool_call_id is the id of one of those tool_calls, and the tool-role
\* messages after one assistant message stand in the order of its tool_calls.
C11_ToolMessageAfterItsRequest ==
    \A q \in 1..Len(messages) :
        messages[q].role = "tool" =>
            \E p \in Requesting(messages) :
                /\ q \in ResultsOf(messages, p)
                /\ CallIndex(messages[p], messages[q].tool_call_id) # 0
                /\ \A r \in ResultsOf(messages, p) :
                      r < q => CallIndex(messages[p], messages[r].tool_call_id)
                               < CallIndex(messages[p], messages[q].tool_call_id)

C11_Witness ==
    /\ pc = "create2"
    /\ Len(choice.tool_calls) = 2
    /\ messages[3].role = "tool"
    /\ messages[3].tool_call_id = choice.tool_calls[1].id

DriverStateAt(p) ==
    CASE p \in {"create1", "create2"} -> "AwaitingModel"
      [] p \in {"first_call", "print"} -> "ModelResponded"
      [] p \in {"append_message", "append_tool"} -> "DispatchingTools"
      [] p = "done" -> "Terminal"
      [] p = "raised" -> "Failed"

\* The driver's transitions, and the exit of a failed model invocation.
DriverTransitions ==
    {<<"AwaitingModel", "ModelResponded">>,
     <<"ModelResponded", "Terminal">>,
     <<"ModelResponded", "DispatchingTools">>,
     <<"DispatchingTools", "AwaitingModel">>,
     <<"AwaitingModel", "Failed">>}

\* Some tool call of an assistant message of the log has no tool-role message.
MissingResults(log) ==
    \E p \in Requesting(log) :
        \E c \in 1..Len(log[p].tool_calls) :
            ResultsFor(log, p, log[p].tool_calls[c].id) = {}

\* C13: every step that changes the driver's state is one of its transitions,
\* no model invocation is issued while a tool result is missing from the log,
\* and no step leaves Terminal.  (Violated: the second invocation is issued
\* with only tool_calls[0] answered, and line 36 raises out of ModelResponded.)
C13_DriverTransitionsOnly ==
    [][/\ DriverStateAt(pc') # DriverStateAt(pc) =>
             <<DriverStateAt(pc), DriverStateAt(pc')>> \in DriverTransitions
       /\ Len(api_calls') # Len(api_calls) => ~MissingResults(messages)
       /\ DriverStateAt(pc) # "Terminal"]_vars

\* The log the second create call is due to be sent, given the first response.
LogAtSecondCall(first) ==
    <<[role |-> "user", content |-> "How tall is Mt. St. Helens?",
       tool_calls |-> <<>>, tool_call_id |-> None],
      first,
      [role |-> "tool", content |-> "9,033 feet", tool_calls |-> <<>>,
       tool_call_id |-> first.tool_calls[1].id]>>

\* C14: the script makes at most two model invocations and stops, whatever
\* the model answers; when the second invocation is due, and when it is made,
\* the log is the user message, the assistant message of the first response
\* and one tool-role message with the id of that response's first tool call.
C14_TwoCallsThenStop ==
    /\ [](/\ Len(api_calls) <= MaxTurns
          /\ pc = "create2" => messages = LogAtSecondCall(api_calls[1].message)
          /\ Len(api_calls) = 2 =>
                api_calls[2].request.messages = LogAtSecondCall(api_calls[1].message))
    /\ <>Stopped

C14_Witness ==
    /\ pc = "done"
    /\ Len(api_calls) = 2
    /\ Len(api_calls[1].message.tool_calls) = 2
    /\ Len(api_calls[2].request.messages) = 3

\* The JSON values Python takes as false: {}, [], "", 0, null and false.
FalseValues ==
    {JObj(<<>>), JArr(<<>>), JStr(<<>>), JNum(0), JLit("null"), JLit("false")}

\* The channel is set to a non-empty string that decodes to a true value.
ChannelIsTrue ==
    /\ environ.set
    /\ environ.val # <<>>
    /\ Loads(environ.val).ok
    /\ Loads(environ.val).v \notin FalseValues

\* C15: the emitted text has a "Workflow globals" section exactly when the
\* channel is set to a non-empty string decoding to a true JSON value, of
\* whatever type; {}, [], 0, null and false give none.
C15_GlobalsSectionIffTrue ==
    /\ (gpc = "exited" /\ exit_code = 0) =>
          (Contains(OutputText, GlobalsHeader) <=> ChannelIsTrue)
    /\ (gpc = "exited" /\ ChannelIsTrue) => exit_code = 0
    /\ (gpc = "exited" /\ environ.set
          /\ environ.val \in {<<"{", "}">>, <<"[", "]">>, <<"0">>, EnvNull, EnvFalse})
       => exit_code = 0 /\ ~Contains(OutputText, GlobalsHeader)

C15_Witness ==
    /\ gpc = "exited"
    /\ environ = SetTo(EnvArray)
    /\ exit_code = 0
    /\ Contains(OutputText, GlobalsHeader)

=============================================================================
